---- MODULE Spec2Model ----
(***************************************************************************)
(* Model of the CoAP resource directory of aiocoap (src/aiocoap/cli/rd.py): *)
(* the registry CommonRD with its Registration objects, their expiry       *)
(* timers (asyncio tasks), the change subscribers, and the resources that  *)
(* call into the registry (DirectoryResource, RegistrationDispatchSite,    *)
(* RegistrationResource).                                                  *)
(***************************************************************************)
EXTENDS Integers, Sequences, FiniteSets, TLC

VARIABLES
    by_key,             \* CommonRD._by_key: key -> Registration (object id)
    by_path,            \* CommonRD._by_path: path tail -> Registration (object id)
    regs,               \* heap of Registration objects: object id -> fields
    timers,             \* pending asyncio tasks of _set_timeout: [reg, due]
    updated_state_cb,   \* CommonRD._updated_state_cb
    now,                \* event loop clock, in seconds
    last,               \* the operation that ran last, and how it ended
    scope               \* which requests the clients of this run send

vars == <<by_key, by_path, regs, timers, updated_state_cb, now, last, scope>>

----------------------------------------------------------------------------
(* Bounds of the model *)

MaxRegs == 2    \* Registration objects referenced at the same time
MaxTime == 16   \* the clock does not advance beyond this

(* Program constants *)

grace_period == 15
default_lt == 90000

----------------------------------------------------------------------------
(* Values *)

None == "<None>"            \* Python's None (a query key given without '=')
Unset == "<unset>"          \* attribute not assigned yet (self.base in __init__)
Unbound == "<unbound>"      \* local variable not assigned (network_base)
NoTask == -1                \* self.timeout refers to no pending task

entity_prefix == <<"reg">>

Anonymous == [anonymous |-> TRUE, host |-> ""]
Host(h) == [anonymous |-> FALSE, host |-> h]

\* network_remote.uri: raises AnonymousHost for an anonymous remote
uri(network_remote) == "coap://" \o network_remote.host

EmptyQuery == [k \in {} |-> <<>>]

Without(query, name) == [k \in DOMAIN query \ {name} |-> query[k]]

Merge(f, g) == [k \in DOMAIN f \cup DOMAIN g |-> IF k \in DOMAIN g THEN g[k] ELSE f[k]]

Digits == <<"0", "1", "2", "3", "4", "5", "6", "7", "8", "9">>

RECURSIVE str(_)
str(i) == IF i < 10 THEN Digits[i + 1] ELSE str(i \div 10) \o Digits[(i % 10) + 1]

\* int(s) of the literals the model feeds in; ValueError for the others
IntLiterals == {"0", "1", "01", "2"}
int(s) == CASE s = "0" -> 0
            [] s = "1" -> 1
            [] s = "01" -> 1
            [] s = "2" -> 2

----------------------------------------------------------------------------
(* Requests: the query multimaps (the output of query_split) the model feeds *)
(* in. A key maps to the list of its values, in arrival order. A run is of   *)
(* one of two scopes: one endpoint name with the whole repertoire of         *)
(* parameters and remotes, or two endpoint names with lifetimes only.        *)

OneEndpoint == "one endpoint"
TwoEndpoints == "two endpoints"

ReservedKeys == {"page", "count", "rt", "href", "anchor"}

Opt(k, vals) == {EmptyQuery} \cup {(k :> v) : v \in vals}

Remotes ==
    IF scope = OneEndpoint THEN {Anonymous, Host("h1"), Host("h2")} ELSE {Host("h1")}

CoreQueries ==
    IF scope = OneEndpoint
    THEN {Merge(Merge(l, b), e) : l \in Opt("lt", {<<"1">>, <<"x">>}),
                                  b \in Opt("base", {<<"coap://h1">>}),
                                  e \in Opt("et", {<<"a">>})}
    ELSE Opt("lt", {<<"1">>})

\* queries of a registration update (POST to a registration resource)
UpdateQueries ==
    CoreQueries \cup
    (IF scope = OneEndpoint
     THEN {("lt" :> <<"01">>), ("et" :> <<"b">>), ("base" :> <<None>>),
           ("lt" :> <<"1", "x">>),
           ("ep" :> <<"e1">>), ("d" :> <<"d1">>) @@ ("lt" :> <<"1">>),
           ("rt" :> <<"x">>) @@ ("lt" :> <<"1">>), ("anchor" :> <<"x">>)}
     ELSE {})

\* queries of a PUT to a registration resource
PutQueries ==
    IF scope = OneEndpoint
    THEN {EmptyQuery, ("lt" :> <<"1">>), ("lt" :> <<"x">>), ("ep" :> <<"e1">>)}
    ELSE {EmptyQuery}

KeyArgs ==
    IF scope = OneEndpoint THEN {("ep" :> <<"e1">>)}
    ELSE {("ep" :> <<"e1">>), ("ep" :> <<"e1">>) @@ ("d" :> <<"d1">>)}

\* queries of a registration (POST to the directory resource)
RegisterQueries ==
    {Merge(c, k) : c \in CoreQueries, k \in KeyArgs} \cup
    (IF scope = OneEndpoint
     THEN {EmptyQuery, ("d" :> <<"d1">>) @@ ("lt" :> <<"1">>), ("ep" :> <<None>>),
           ("ep" :> <<"e1", "e2">>),
           ("ep" :> <<"e1">>) @@ ("page" :> <<"1">>),
           ("ep" :> <<"e1">>) @@ ("href" :> <<"x">>) @@ ("lt" :> <<"1">>)}
     ELSE {})

\* the link sets a request body carries, already parsed by the codec
\* a link as the codec hands it over: Link(href, attr_pairs)
Link(url, attr_pairs) == [href |-> url, attr_pairs |-> attr_pairs]

LinkInputs == {<<Link("/sensor", <<>>)>>}

----------------------------------------------------------------------------
(* pop_single_arg: the value at name, removed from the query. The function *)
(* raises the name BadRequest, which the module never binds: a NameError.  *)

pop_single_arg(query, name) ==
    IF name \notin DOMAIN query
    THEN [exc |-> "", value |-> None, query |-> query]
    ELSE IF Len(query[name]) > 1
    THEN [exc |-> "NameError", value |-> None, query |-> query]
    ELSE [exc |-> "", value |-> query[name][1], query |-> Without(query, name)]

----------------------------------------------------------------------------
(* Registration.update_params up to the timer: the checks and the          *)
(* assignments to self, one definition for each step of the method, the    *)
(* last step first. The result tells how far the method got: exc = "" when *)
(* it reached the (re)arming of the timer, and then notify is              *)
(* actual_change.                                                          *)

Raised(e, self) == [exc |-> e, self |-> self, notify |-> FALSE]

\* variant of names_key that looks for ep only
names_key_ep_only(registration_parameters) == "ep" \in DOMAIN registration_parameters

\* line 115: the parameters name the key of the Registration
names_key(registration_parameters) ==
    \E k \in DOMAIN registration_parameters : k \in {"ep", "d"}

\* variant of actual_change in which a new lt does not count as a change
actual_change_but_lt(is_initial, lt_changes, base_changes, derives, params_change) ==
    is_initial \/ base_changes \/ derives \/ params_change

\* the assignments to actual_change (lines 133-166)
actual_change(is_initial, lt_changes, base_changes, derives, params_change) ==
    is_initial \/ lt_changes \/ base_changes \/ derives \/ params_change

\* lines 164-166: the remaining parameters
update_parameters(self, rest, is_initial, lt_changes, base_changes, derives) ==
    LET params_change ==
            \E k \in DOMAIN rest :
                \/ k \notin DOMAIN self.registration_parameters
                \/ self.registration_parameters[k] # rest[k]
    IN  [exc |-> "",
         self |-> IF params_change
                  THEN [self EXCEPT !.registration_parameters = Merge(@, rest)]
                  ELSE self,
         notify |-> actual_change(is_initial, lt_changes, base_changes, derives,
                                  params_change)]

\* lines 160-162: the base derived from the remote; network_base is bound
\* only when the branch of line 124 was taken
update_network_base(self, network_base, rest, is_initial, lt_changes, base_changes) ==
    LET derives == ~self.base_is_explicit /\ (is_initial \/ self.base # network_base)
    IN  IF ~self.base_is_explicit /\ network_base = Unbound
        THEN Raised("UnboundLocalError", self)
        ELSE update_parameters(IF derives THEN [self EXCEPT !.base = network_base]
                               ELSE self,
                               rest, is_initial, lt_changes, base_changes, derives)

\* lines 155-158: the explicit base
update_base(self, network_base, set_base, rest, is_initial, lt_changes) ==
    LET base_changes == set_base # None /\ (is_initial \/ self.base # set_base)
    IN  update_network_base(IF base_changes
                            THEN [self EXCEPT !.base = set_base,
                                              !.base_is_explicit = TRUE]
                            ELSE self,
                            network_base, rest, is_initial, lt_changes, base_changes)

\* lines 152-154: the lifetime; set_lt is <<>> for the code's None
update_lt(self, network_base, set_lt, set_base, rest, is_initial) ==
    LET lt_changes == set_lt # <<>> /\ self.lt # set_lt[1]
    IN  update_base(IF lt_changes THEN [self EXCEPT !.lt = set_lt[1]] ELSE self,
                    network_base, set_base, rest, is_initial, lt_changes)

\* variant of parse_base that reads the base and leaves it among the parameters
parse_base_unpopped(self, network_base, set_lt, popBase, is_initial) ==
    IF popBase.exc # ""
    THEN Raised(popBase.exc, self)
    ELSE update_lt(self, network_base, set_lt, popBase.value,
                   IF popBase.value = None THEN popBase.query
                   ELSE ("base" :> <<popBase.value>>) @@ popBase.query,
                   is_initial)

\* lines 149-150
parse_base(self, network_base, set_lt, popBase, is_initial) ==
    IF popBase.exc # ""
    THEN Raised(popBase.exc, self)
    ELSE update_lt(self, network_base, set_lt, popBase.value, popBase.query, is_initial)

\* lines 143-147
parse_lt(self, network_base, has_lt, popLt, is_initial) ==
    IF popLt.exc # ""
    THEN Raised(popLt.exc, self)
    ELSE IF has_lt /\ popLt.value = None
    THEN Raised("TypeError", self)
    ELSE IF has_lt /\ popLt.value \notin IntLiterals
    THEN Raised("BadRequest", self)
    ELSE parse_base(self, network_base,
                    IF has_lt THEN <<int(popLt.value)>> ELSE <<>>,
                    pop_single_arg(popLt.query, "base"), is_initial)

\* lines 108-131, and on through the steps above
update_params(self, network_remote, registration_parameters, is_initial) ==
    LET need_network == /\ is_initial \/ ~self.base_is_explicit
                        /\ "base" \notin DOMAIN registration_parameters
    IN  IF names_key(registration_parameters)
        THEN Raised("BadRequest", self)
        ELSE IF \E k \in DOMAIN registration_parameters : k \in ReservedKeys
        THEN Raised("BadRequest", self)
        ELSE IF need_network /\ network_remote.anonymous
        THEN Raised("BadRequest", self)
        ELSE parse_lt(self, IF need_network THEN uri(network_remote) ELSE Unbound,
                      "lt" \in DOMAIN registration_parameters,
                      pop_single_arg(registration_parameters, "lt"), is_initial)

----------------------------------------------------------------------------
(* The store: the two maps, the heap of Registration objects and the       *)
(* pending timer tasks, as the methods below pass it along.                *)

Store == [by_key |-> by_key, by_path |-> by_path, regs |-> regs, timers |-> timers]

Range(f) == {f[x] : x \in DOMAIN f}

\* the path tail a Registration's delete callback closes over (line 262)
pathtail(reg) == SubSeq(reg.path, Len(entity_prefix) + 1, Len(reg.path))

\* objects nothing refers to any more are collected
Collect(S) ==
    LET used == Range(S.by_key) \cup Range(S.by_path) \cup {t.reg : t \in S.timers}
    IN  [S EXCEPT !.regs = [r \in DOMAIN S.regs \cap used |-> S.regs[r]]]

NoCalls == [i \in DOMAIN updated_state_cb |-> 0]

\* CommonRD._updated_state: the subscribers are called in order; fail is the
\* index of the first subscriber that raises (0: none does)
_updated_state(fail) ==
    [exc |-> IF fail = 0 THEN "" ELSE "CallbackError",
     calls |-> [i \in DOMAIN updated_state_cb |-> IF fail = 0 \/ i <= fail THEN 1 ELSE 0]]

Plus(c1, c2) == [i \in DOMAIN c1 |-> c1[i] + c2[i]]

\* variant of cancel in which the task stays pending
cancel_nothing(S, r) == S

\* Task.cancel of self.timeout
cancel(S, r) ==
    [S EXCEPT !.timers = @ \ {[reg |-> r, due |-> S.regs[r].timeout]},
              !.regs[r].timeout = NoTask]

\* Registration._set_timeout
_set_timeout(S, r) ==
    LET due == now + S.regs[r].lt + grace_period
    IN  [S EXCEPT !.timers = @ \cup {[reg |-> r, due |-> due]},
                  !.regs[r].timeout = due]

\* Registration.refresh_timeout
refresh_timeout(S, r) == _set_timeout(cancel(S, r), r)

\* the delete callback initialize_endpoint hands to the Registration
delete_cb(S, path, key) ==
    IF path \notin DOMAIN S.by_path
    THEN [exc |-> "KeyError", S |-> S]
    ELSE LET S1 == [S EXCEPT !.by_path = Without(@, path)]
         IN  IF key \notin DOMAIN S1.by_key
             THEN [exc |-> "KeyError", S |-> S1]
             ELSE [exc |-> "", S |-> [S1 EXCEPT !.by_key = Without(@, key)]]

\* Registration.delete
delete(S, r, fail) ==
    LET S1 == cancel(S, r)
        n == _updated_state(fail)
        d == delete_cb(S1, pathtail(S.regs[r]), S.regs[r].key)
    IN  IF n.exc # ""
        THEN [exc |-> n.exc, S |-> S1, calls |-> n.calls, notifs |-> 1]
        ELSE [exc |-> d.exc, S |-> d.S, calls |-> n.calls, notifs |-> 1]

\* CommonRD._new_pathtail
_new_pathtail(paths) ==
    LET free(i) == <<str(i), "">> \notin DOMAIN paths
        i == CHOOSE i \in 1..(Cardinality(DOMAIN paths) + 1) :
                 free(i) /\ \A j \in 1..(i - 1) : ~free(j)
    IN  <<str(i), "">>

\* Registration.__init__ before its call of update_params
Registration(static_registration_parameters, path, key) ==
    [key |-> key, path |-> path, links |-> <<>>,
     registration_parameters |-> static_registration_parameters,
     lt |-> default_lt, base |-> Unset, base_is_explicit |-> FALSE,
     timeout |-> NoTask, ok_due |-> 0]

\* '/'.join(path)
RECURSIVE join(_)
join(path) ==
    IF Len(path) = 1 THEN path[1] ELSE path[1] \o "/" \o join(Tail(path))

\* the property Registration.href
href(self) == "/" \o join(self.path)

\* Registration.get_host_link: the link to the registration resource, with
\* one attribute pair for each value of each registration parameter (here
\* as a set: the pairs come in the parameters' order of insertion)
get_host_link(self) ==
    [href |-> href(self),
     attr_pairs |-> UNION {{<<k, self.registration_parameters[k][i]>> :
                                i \in DOMAIN self.registration_parameters[k]} :
                           k \in DOMAIN self.registration_parameters},
     base |-> self.base, rt |-> "coire.rd-ep"]

Failed(e, S, calls, notifs) ==
    [exc |-> e, S |-> S, reg |-> 0, old |-> 0, calls |-> calls, notifs |-> notifs]

\* lines 275-281: the constructor has run update_params (up); it arms the
\* timer (line 169) and notifies (line 174, n), and then the maps are set
initialize_endpoint_reg(del, up, n, oldreg, path, key, new) ==
    LET S2 == _set_timeout([del.S EXCEPT !.regs = (new :> up.self) @@ @], new)
    IN  IF up.exc # ""
        THEN Failed(up.exc, del.S, del.calls, del.notifs)
        ELSE IF n.exc # ""
        THEN Failed(n.exc, S2, Plus(del.calls, n.calls), del.notifs + 1)
        ELSE [exc |-> "",
              S |-> [S2 EXCEPT !.by_key = (key :> new) @@ @,
                               !.by_path = (path :> new) @@ @,
                               !.regs[new].ok_due = S2.regs[new].timeout],
              reg |-> new, old |-> oldreg, calls |-> Plus(del.calls, n.calls),
              notifs |-> del.notifs + 1]

\* lines 263-276: the old Registration is deleted (del), the new one created
initialize_endpoint_new(del, oldreg, path, key, network_remote, ep_and_d, registration_parameters, new, fail_new) ==
    IF del.exc # ""
    THEN Failed(del.exc, del.S, del.calls, del.notifs)
    ELSE initialize_endpoint_reg(
             del,
             update_params(Registration(ep_and_d, entity_prefix \o path, key),
                           network_remote, registration_parameters, TRUE),
             _updated_state(fail_new), oldreg, path, key, new)

\* lines 257-263: the Registration at the key, and the path
initialize_endpoint_oldreg(S, key, network_remote, ep_and_d, registration_parameters, new, fail_old, fail_new) ==
    LET exists == key \in DOMAIN S.by_key
    IN  initialize_endpoint_new(
            IF exists THEN delete(S, S.by_key[key], fail_old)
            ELSE [exc |-> "", S |-> S, calls |-> NoCalls, notifs |-> 0],
            IF exists THEN S.by_key[key] ELSE 0,
            IF exists THEN pathtail(S.regs[S.by_key[key]]) ELSE _new_pathtail(S.by_path),
            key, network_remote, ep_and_d, registration_parameters, new, fail_new)

\* CommonRD.initialize_endpoint; new is the identity of the object created,
\* fail_old and fail_new tell which subscriber raises when the old
\* Registration's deletion, and the new one's creation, are notified
initialize_endpoint(S, network_remote, registration_parameters, new, fail_old, fail_new) ==
    LET rp == registration_parameters
        popEp == pop_single_arg(rp, "ep")
        popD == pop_single_arg(popEp.query, "d")
    IN  IF popEp.exc # "" THEN Failed(popEp.exc, S, NoCalls, 0)
        ELSE IF popEp.value = None
        THEN Failed("BadRequest", S, NoCalls, 0)
        ELSE IF popD.exc # "" THEN Failed(popD.exc, S, NoCalls, 0)
        ELSE initialize_endpoint_oldreg(S, <<popEp.value, popD.value>>, network_remote,
                                        [k \in DOMAIN rp \cap {"ep", "d"} |-> rp[k]],
                                        popD.query, new, fail_old, fail_new)

----------------------------------------------------------------------------
(* The state after StandaloneResourceDirectory.__init__: an empty registry *)
(* whose two observable lookup resources have subscribed.                  *)

\* CommonRD.register_change_callback
register_change_callback(cbs, callback) == Append(cbs, callback)

Idle == [op |-> "init", res |-> "ok", reg |-> 0, old |-> 0, epd |-> FALSE,
         calls |-> <<0, 0>>, notifs |-> 0]

Init ==
    /\ by_key = EmptyQuery
    /\ by_path = EmptyQuery
    /\ regs = EmptyQuery
    /\ timers = {}
    /\ updated_state_cb =
           register_change_callback(
               register_change_callback(<<>>, "EndpointLookupInterface"),
               "ResourceLookupInterface")
    /\ now = 0
    /\ last = Idle
    /\ scope \in {OneEndpoint, TwoEndpoints}

Subscribers == 0..Len(updated_state_cb)

\* what a handler leaves behind; of a request that is rejected before it has
\* any effect, last keeps the operation and the error only
Becomes(S, l) ==
    LET C == Collect(S)
    IN  /\ by_key' = C.by_key
        /\ by_path' = C.by_path
        /\ regs' = C.regs
        /\ timers' = C.timers
        /\ last' = IF l.res \notin {"ok", "BadRequest (body)"} /\ S = Store /\ l.notifs = 0
                   THEN [l EXCEPT !.reg = 0, !.old = 0]
                   ELSE l
        /\ UNCHANGED <<updated_state_cb, now, scope>>

Outcome(exc) == IF exc = "" THEN "ok" ELSE exc

FreeIds == (1..MaxRegs) \ DOMAIN regs

\* the subscribers that may raise when a creation is notified
CreationFails == IF scope = TwoEndpoints THEN Subscribers \ {0} ELSE {}

\* the subscriber failures and bodies to try for a registration: try is the
\* registration without failures
register_choices(try) ==
    IF try.exc # "" THEN {<<0, 0, <<>>>>}
    ELSE {<<0, 0, l>> : l \in LinkInputs}
         \cup {<<0, f, <<>>>> : f \in CreationFails}
         \cup (IF try.old = 0 THEN {} ELSE {<<f, 0, <<>>>> : f \in Subscribers \ {0}})

\* lines 316-319: r is what initialize_endpoint returned or raised
registered(r, new, links) ==
    Becomes(IF r.exc = "" THEN [r.S EXCEPT !.regs[new].links = links] ELSE r.S,
            [op |-> "register", res |-> Outcome(r.exc), reg |-> r.reg, old |-> r.old,
             epd |-> FALSE, calls |-> r.calls, notifs |-> r.notifs])

\* DirectoryResource.render_post: a registration
DirectoryResource_render_post ==
    \E network_remote \in Remotes, query \in RegisterQueries :
        /\ FreeIds # {}
        /\ LET new == CHOOSE i \in FreeIds : \A j \in FreeIds : i <= j
           IN  \E c \in register_choices(
                            initialize_endpoint(Store, network_remote, query, new, 0, 0)) :
                   registered(initialize_endpoint(Store, network_remote, query, new,
                                                  c[1], c[2]),
                              new, c[3])

\* RegistrationDispatchSite.render for a path no Registration is at
RegistrationDispatchSite_render ==
    \E path \in {<<str(i), "">> : i \in 1..MaxRegs} \ DOMAIN by_path :
        Becomes(Store, [op |-> "dispatch", res |-> "NotFound", reg |-> 0, old |-> 0,
                        epd |-> FALSE, calls |-> NoCalls, notifs |-> 0])

\* lines 173-174: the timer is re-armed (S2), the subscribers are notified (n)
update_notified(S2, r, n, notify) ==
    IF n.exc # ""
    THEN [exc |-> n.exc, S |-> S2, calls |-> n.calls, notifs |-> 1]
    ELSE [exc |-> "", S |-> [S2 EXCEPT !.regs[r].ok_due = S2.regs[r].timeout],
          calls |-> n.calls, notifs |-> IF notify THEN 1 ELSE 0]

\* lines 168-174: up is what lines 108-166 of update_params made of the call
update_refreshed(S, r, up, fail) ==
    IF up.exc # ""
    THEN [exc |-> up.exc, S |-> [S EXCEPT !.regs[r] = up.self], calls |-> NoCalls,
          notifs |-> 0]
    ELSE update_notified(refresh_timeout([S EXCEPT !.regs[r] = up.self], r), r,
                         IF up.notify THEN _updated_state(fail)
                         ELSE [exc |-> "", calls |-> NoCalls],
                         up.notify)

\* RegistrationResource._update_params: update_params with its timer and
\* its notification
_update_params(S, r, network_remote, query, fail) ==
    update_refreshed(S, r, update_params(S.regs[r], network_remote, query, FALSE), fail)

HasEpOrD(query) == "ep" \in DOMAIN query \/ "d" \in DOMAIN query

\* the subscriber failures to try for an update: none when nothing is notified
UpdateFails(r, network_remote, query) ==
    IF update_params(regs[r], network_remote, query, FALSE).notify
    THEN Subscribers ELSE {0}

\* lines 340-344: u is what _update_params did; the request may have a body
post_responses(u, r, query) ==
    \E body \in IF u.exc = "" THEN BOOLEAN ELSE {FALSE} :
        Becomes(u.S,
                [op |-> "update",
                 res |-> IF u.exc = "" /\ body THEN "BadRequest (body)"
                         ELSE Outcome(u.exc),
                 reg |-> r, old |-> 0, epd |-> HasEpOrD(query),
                 calls |-> u.calls, notifs |-> u.notifs])

\* RegistrationResource.render_post: a registration update
RegistrationResource_render_post ==
    \E path \in DOMAIN by_path, network_remote \in Remotes, query \in UpdateQueries :
        \E fail \in UpdateFails(by_path[path], network_remote, query) :
            post_responses(_update_params(Store, by_path[path], network_remote, query,
                                          fail),
                           by_path[path], query)

\* lines 351-353: u is what _update_params did
put_responses(u, r, query) ==
    \E links \in IF u.exc = "" THEN LinkInputs ELSE {<<>>} :
        Becomes(IF u.exc = "" THEN [u.S EXCEPT !.regs[r].links = links] ELSE u.S,
                [op |-> "update", res |-> Outcome(u.exc),
                 reg |-> r, old |-> 0, epd |-> HasEpOrD(query),
                 calls |-> u.calls, notifs |-> u.notifs])

\* RegistrationResource.render_put: update and replace the links
RegistrationResource_render_put ==
    \E path \in DOMAIN by_path, network_remote \in Remotes, query \in PutQueries :
        \E fail \in UpdateFails(by_path[path], network_remote, query) :
            put_responses(_update_params(Store, by_path[path], network_remote, query,
                                         fail),
                          by_path[path], query)

\* d is what Registration.delete did to r, called by op
deleted(d, r, op) ==
    Becomes(d.S, [op |-> op, res |-> Outcome(d.exc), reg |-> r, old |-> 0,
                  epd |-> FALSE, calls |-> d.calls, notifs |-> d.notifs])

\* RegistrationResource.render_delete
RegistrationResource_render_delete ==
    \E path \in DOMAIN by_path, fail \in Subscribers :
        deleted(delete(Store, by_path[path], fail), by_path[path], "delete")

\* the task of _set_timeout wakes up from its sleep and calls self.delete;
\* what delete raises ends the task and goes nowhere else
longwait ==
    \E t \in timers, fail \in Subscribers :
        /\ t.due <= now
        /\ deleted(delete([Store EXCEPT !.timers = @ \ {t}], t.reg, fail), t.reg,
                   "expire")

\* time passes, up to the moment the next task is due
Tick ==
    /\ timers # {}
    /\ \A t \in timers : t.due > now
    /\ LET next == CHOOSE d \in {t.due : t \in timers} : \A t \in timers : d <= t.due
       IN  /\ next <= MaxTime
           /\ now' = next
    /\ last' = [Idle EXCEPT !.op = "tick"]
    /\ UNCHANGED <<by_key, by_path, regs, timers, updated_state_cb, scope>>

Next ==
    \/ DirectoryResource_render_post
    \/ RegistrationDispatchSite_render
    \/ RegistrationResource_render_post
    \/ RegistrationResource_render_put
    \/ RegistrationResource_render_delete
    \/ longwait
    \/ Tick

Spec == Init /\ [][Next]_vars

----------------------------------------------------------------------------
(* The lookup interfaces. The texts are strings; a query is what            *)
(* query_split returns, with its keys in their order of insertion: a        *)
(* sequence of <<key, values>>.                                             *)

endswith(s, suffix) ==
    Len(s) >= Len(suffix) /\ SubSeq(s, Len(s) - Len(suffix) + 1, Len(s)) = suffix

startswith(x, start) ==
    Len(x) >= Len(start) /\ SubSeq(x, 1, Len(start)) = start

\* str.split(): the words of x between its blanks; word is the word begun
RECURSIVE split_word(_, _)
split_word(x, word) ==
    IF x = ""
    THEN IF word = "" THEN <<>> ELSE <<word>>
    ELSE IF Head(x) = " "
    THEN (IF word = "" THEN <<>> ELSE <<word>>) \o split_word(Tail(x), "")
    ELSE split_word(Tail(x), word \o Head(x))

split(x) == split_word(x, "")

\* urljoin of a base that is a scheme and an authority with a reference that
\* is an absolute path
urljoin(base, url) == base \o url

\* result.setdefault(k, []).append(v)
setdefault_append(result, k, v) ==
    IF \E i \in DOMAIN result : result[i][1] = k
    THEN [i \in DOMAIN result |->
             IF result[i][1] = k THEN <<k, Append(result[i][2], v)>> ELSE result[i]]
    ELSE Append(result, <<k, <<v>>>>)

\* query_split of the Uri-Query options, each one <<k, v>>, v being None for
\* an option without '='
RECURSIVE query_split(_)
query_split(uri_query) ==
    IF uri_query = <<>> THEN <<>>
    ELSE setdefault_append(query_split(SubSeq(uri_query, 1, Len(uri_query) - 1)),
                           uri_query[Len(uri_query)][1], uri_query[Len(uri_query)][2])

\* the query as pop_single_arg takes it
dict(query) ==
    [k \in {query[i][1] : i \in DOMAIN query} |->
        query[CHOOSE i \in DOMAIN query : query[i][1] = k][2]]

\* Registration.get_based_links: the links resolved to the base
get_based_links(self) ==
    [i \in DOMAIN self.links |->
        LET l == self.links[i]
            anchored == \E j \in DOMAIN l.attr_pairs : l.attr_pairs[j][1] = "anchor"
            anchor == l.attr_pairs[CHOOSE j \in DOMAIN l.attr_pairs :
                                       l.attr_pairs[j][1] = "anchor"][2]
        IN  Link(urljoin(self.base, l.href),
                 IF anchored
                 THEN SelectSeq(l.attr_pairs, LAMBDA pair : pair[1] # "anchor")
                      \o <<<<"anchor", urljoin(self.base, anchor)>>>>
                 ELSE l.attr_pairs \o <<<<"anchor", self.base>>>>)]

\* CommonRD.get_endpoints: the values of by_key in their order of insertion,
\* which is the order of creation as long as no Registration was replaced
get_endpoints(S) ==
    LET eps == Range(S.by_key)
    IN  [i \in 1..Cardinality(eps) |->
            CHOOSE r \in eps : Cardinality({q \in eps : q < r}) = i - 1]

\* the function bound to matches for a filter key and one of its values
\* (lines 403-409): prefix or equality, of the whole text or of its words
matches_of(search_key, search_value) ==
    LET prefix == search_value # None /\ endswith(search_value, "*")
    IN  [prefix |-> prefix,
         text |-> IF prefix THEN SubSeq(search_value, 1, Len(search_value) - 1)
                  ELSE search_value,
         words |-> search_key \in {"if", "rt"}]

original_matches(m, x) == IF m.prefix THEN startswith(x, m.text) ELSE x = m.text

\* the call matches(x)
matches(m, x) ==
    IF m.words
    THEN \E i \in DOMAIN split(x) : original_matches(m, split(x)[i])
    ELSE original_matches(m, x)

\* variant of _link_matches that looks at the names of the attributes only
_link_matches_by_name(link, key, condition) ==
    \E i \in DOMAIN link.attr_pairs : link.attr_pairs[i][1] = key

_link_matches(link, key, condition) ==
    \E i \in DOMAIN link.attr_pairs :
        link.attr_pairs[i][1] = key /\ matches(condition, link.attr_pairs[i][2])

\* the query keys that are no filters (lines 399-400)
Pagination == {"page", "count"}

filters(query) == SelectSeq(query, LAMBDA item : item[1] \notin Pagination)

\* the generators the loop stacks on candidates, one for each value of each
\* filter key: each is of one of two kinds (line 411)
RECURSIVE layers(_)
layers(f) ==
    IF f = <<>> THEN <<>>
    ELSE [j \in DOMAIN f[1][2] |-> IF f[1][1] = "href" THEN "href" ELSE "attr"]
         \o layers(Tail(f))

\* The generators are run by list(candidates) in _paginate, after the loop:
\* their conditions read search_key and matches then, as the loop left them.
\* search_key is the last key of the query (a pagination key as well: the
\* loop variable is assigned before the continue); matches is the function
\* made for the last value of the last filter key.
cells(query) ==
    LET f == filters(query)
        item == f[Len(f)]
    IN  [search_key |-> query[Len(query)][1],
         matches |-> matches_of(item[1], item[2][Len(item[2])])]

\* the cells as they are while the loop is at a value of a key
cells_at(search_key, search_value) ==
    [search_key |-> search_key, matches |-> matches_of(search_key, search_value)]

\* the condition of a generator of the endpoint lookup (lines 412-421)
endpoint_condition(c, kind, cell) ==
    IF kind = "href"
    THEN \/ matches(cell.matches, href(c))
         \/ \E i \in DOMAIN get_based_links(c) :
                matches(cell.matches, get_based_links(c)[i].href)
    ELSE \/ /\ cell.search_key \in DOMAIN c.registration_parameters
            /\ \E i \in DOMAIN c.registration_parameters[cell.search_key] :
                   matches(cell.matches, c.registration_parameters[cell.search_key][i])
         \/ \E i \in DOMAIN get_based_links(c) :
                _link_matches(get_based_links(c)[i], cell.search_key, cell.matches)

\* the condition of a generator of the resource lookup (lines 466-475) for
\* the link c of the endpoint e
resource_condition(e, c, kind, cell) ==
    IF kind = "href"
    THEN matches(cell.matches, c.href) \/ matches(cell.matches, href(e))
    ELSE \/ _link_matches(c, cell.search_key, cell.matches)
         \/ /\ cell.search_key \in DOMAIN e.registration_parameters
            /\ \E i \in DOMAIN e.registration_parameters[cell.search_key] :
                   matches(cell.matches, e.registration_parameters[cell.search_key][i])

\* list(candidates) of the endpoint lookup: the endpoints that pass every
\* generator
RECURSIVE endpoint_candidates(_, _, _, _)
endpoint_candidates(S, candidates, kinds, cell) ==
    IF kinds = <<>> THEN candidates
    ELSE endpoint_candidates(
             S,
             SelectSeq(candidates,
                       LAMBDA c : endpoint_condition(S.regs[c], kinds[1], cell)),
             Tail(kinds), cell)

\* line 450: the pairs of an endpoint and one of its links
RECURSIVE pairs(_, _)
pairs(S, eps) ==
    IF eps = <<>> THEN <<>>
    ELSE [i \in DOMAIN get_based_links(S.regs[eps[1]]) |->
             <<eps[1], get_based_links(S.regs[eps[1]])[i]>>]
         \o pairs(S, Tail(eps))

\* list(candidates) of the resource lookup, before the endpoints are stripped
RECURSIVE resource_candidates(_, _, _, _)
resource_candidates(S, candidates, kinds, cell) ==
    IF kinds = <<>> THEN candidates
    ELSE resource_candidates(
             S,
             SelectSeq(candidates,
                       LAMBDA p : resource_condition(S.regs[p[1]], p[2], kinds[1], cell)),
             Tail(kinds), cell)

\* candidates[start:stop] for start, stop >= 0
slice(candidates, start, stop) ==
    SubSeq(candidates, start + 1, IF stop < Len(candidates) THEN stop ELSE Len(candidates))

\* lines 375-384: page and count are what pop_single_arg returned
paginate_slices(candidates, page, count) ==
    IF page # None /\ page \notin IntLiterals
    THEN [exc |-> "BadRequest", candidates |-> <<>>]
    ELSE IF page # None /\ count = None
    THEN [exc |-> "TypeError", candidates |-> <<>>]
    ELSE IF count # None /\ count \notin IntLiterals
    THEN [exc |-> "BadRequest", candidates |-> <<>>]
    ELSE [exc |-> "",
          candidates |->
              IF count = None THEN candidates
              ELSE slice(IF page = None THEN candidates
                         ELSE slice(candidates, int(page) * int(count), Len(candidates)),
                         0, int(count))]

\* lines 372-373
paginate_count(candidates, page, popCount) ==
    IF popCount.exc # ""
    THEN [exc |-> popCount.exc, candidates |-> <<>>]
    ELSE paginate_slices(candidates, page, popCount.value)

paginate_page(candidates, popPage) ==
    IF popPage.exc # ""
    THEN [exc |-> popPage.exc, candidates |-> <<>>]
    ELSE paginate_count(candidates, popPage.value, pop_single_arg(popPage.query, "count"))

_paginate(candidates, query) ==
    paginate_page(candidates, pop_single_arg(dict(query), "page"))

----------------------------------------------------------------------------
(* The lookups are checked on a directory of five endpoints that the       *)
(* registrations below have built, none of them replaced or expired.       *)

Lookup == "lookup"

OSCOREAddress(h) == [anonymous |-> FALSE, host |-> h, oscore |-> TRUE]

\* isinstance(remote, aiocoap.transports.oscore.OSCOREAddress)
is_OSCOREAddress(remote) == "oscore" \in DOMAIN remote

LookupRemotes == {Host("h9"), OSCOREAddress("h9")}

Registrations ==
    <<[remote |-> Host("h1"),
       query |-> ("ep" :> <<"e1">>) @@ ("et" :> <<"a">>),
       links |-> <<Link("/temp", <<<<"rt", "temp">>>>),
                   Link("/light", <<<<"rt", "light">>>>)>>],
      [remote |-> Host("h2"),
       query |-> ("ep" :> <<"e2">>) @@ ("et" :> <<"b">>),
       links |-> <<Link("/temp", <<<<"rt", "temp v2">>>>)>>],
      [remote |-> Host("h3"),
       query |-> ("ep" :> <<"e3">>) @@ ("et" :> <<"a">>) @@ ("loc" :> <<"k">>),
       links |-> <<>>],
      [remote |-> Host("h4"),
       query |-> ("ep" :> <<"e4">>) @@ ("et" :> <<"b">>),
       links |-> <<Link("/light", <<<<"rt", "light">>, <<"if", "core.s">>>>)>>],
      [remote |-> Host("h5"),
       query |-> ("ep" :> <<"e5">>) @@ ("d" :> <<"d1">>) @@ ("et" :> <<"a">>),
       links |-> <<Link("/temp", <<<<"rt", "temperature">>>>)>>]>>

EmptyStore == [by_key |-> EmptyQuery, by_path |-> EmptyQuery, regs |-> EmptyQuery, timers |-> {}]

\* the store after the first n registrations, each with its links (lines
\* 316-319)
RECURSIVE Populated(_)
Populated(n) ==
    IF n = 0 THEN EmptyStore
    ELSE [initialize_endpoint(Populated(n - 1), Registrations[n].remote,
                              Registrations[n].query, n, 0, 0).S
              EXCEPT !.regs[n].links = Registrations[n].links]

\* the Uri-Query options of a lookup request
UriOptions ==
    {<<"et", "a">>, <<"et", "b">>, <<"et", None>>, <<"loc", "k">>, <<"ep", "e1">>,
     <<"rt", "temp">>, <<"rt", "te*">>, <<"rt", "light">>,
     <<"href", "/reg/1/">>, <<"href", "coap://h1/*">>,
     <<"page", "0">>, <<"page", "1">>, <<"page", "x">>, <<"page", None>>,
     <<"count", "1">>, <<"count", "2">>, <<"count", "x">>}

MaxOptions == 2

UriQueries ==
    UNION {[1..n -> UriOptions] : n \in 0..MaxOptions}

LookupIdle == [op |-> "init", query |-> <<>>, res |-> "ok", result |-> <<>>]

InitLookup ==
    /\ updated_state_cb =
           register_change_callback(
               register_change_callback(<<>>, "EndpointLookupInterface"),
               "ResourceLookupInterface")
    /\ now = 0
    /\ scope = Lookup
    /\ by_key = Populated(Len(Registrations)).by_key
    /\ by_path = Populated(Len(Registrations)).by_path
    /\ regs = Populated(Len(Registrations)).regs
    /\ timers = Populated(Len(Registrations)).timers
    /\ last = LookupIdle

\* what a lookup handler leaves behind: exc is what it raised or answered
\* instead of a result, result the links of the response
looked_up(op, query, exc, result) ==
    /\ last' = [op |-> op, query |-> query, res |-> Outcome(exc),
                result |-> IF exc = "" THEN result ELSE <<>>]
    /\ UNCHANGED <<by_key, by_path, regs, timers, updated_state_cb, now, scope>>

\* lines 396-423: the endpoints of the response
endpoint_lookup(S, query) ==
    _paginate(IF filters(query) = <<>> THEN get_endpoints(S)
              ELSE endpoint_candidates(S, get_endpoints(S), layers(filters(query)),
                                       cells(query)),
              query)

\* line 425
host_links(S, candidates) ==
    [i \in DOMAIN candidates |-> get_host_link(S.regs[candidates[i]])]

endpoint_response(op, query, p) ==
    looked_up(op, query, p.exc, host_links(Store, p.candidates))

\* EndpointLookupInterface.render_get, which does not look at the remote
EndpointLookupInterface_render_get ==
    \E uri_query \in UriQueries :
        endpoint_response("endpoint lookup", query_split(uri_query),
                          endpoint_lookup(Store, query_split(uri_query)))

\* line 478: strip endpoint
strip(candidates) == [i \in DOMAIN candidates |-> candidates[i][2]]

\* lines 449-480: the links of the response
resource_lookup(S, query) ==
    _paginate(strip(IF filters(query) = <<>> THEN pairs(S, get_endpoints(S))
                    ELSE resource_candidates(S, pairs(S, get_endpoints(S)),
                                             layers(filters(query)), cells(query))),
              query)

resource_response(op, query, p) ==
    looked_up(op, query, p.exc, p.candidates)

\* ResourceLookupInterface.render_get: lines 435-446 turn away every remote
\* that is no OSCOREAddress
ResourceLookupInterface_render_get ==
    \E remote \in LookupRemotes, uri_query \in UriQueries :
        IF ~is_OSCOREAddress(remote)
        THEN looked_up("resource lookup", query_split(uri_query), "Unauthorized", <<>>)
        ELSE resource_response("resource lookup", query_split(uri_query),
                               resource_lookup(Store, query_split(uri_query)))

NextLookup ==
    \/ EndpointLookupInterface_render_get
    \/ ResourceLookupInterface_render_get

SpecLookup == InitLookup /\ [][NextLookup]_vars

----------------------------------------------------------------------------
(* Claims *)

Registered == Range(by_key) \cup Range(by_path)

UpdateSucceeded(l) == l.op = "update" /\ l.res \in {"ok", "BadRequest (body)"}

\* C1: by_key and by_path hold the same Registrations: each one in a map is
\* at its own key in by_key and at its own path tail in by_path.
C1_MapsAgree ==
    /\ \A k \in DOMAIN by_key :
           LET r == by_key[k] IN
           /\ regs[r].key = k
           /\ pathtail(regs[r]) \in DOMAIN by_path
           /\ by_path[pathtail(regs[r])] = r
    /\ \A p \in DOMAIN by_path :
           LET r == by_path[p] IN
           /\ pathtail(regs[r]) = p
           /\ regs[r].key \in DOMAIN by_key
           /\ by_key[regs[r].key] = r

\* C2: a registration that succeeds for a key that has a Registration gives
\* the new object the old one's path, cancels the old one's timer, notifies
\* the deletion and the creation once each, takes the old object out of both
\* maps and leaves the new one at the key and at the path.
C2_Reregistration ==
    [][(last'.op = "register" /\ last'.res = "ok" /\ last'.old # 0) =>
        LET old == last'.old
            new == last'.reg
            key == regs[old].key
            path == pathtail(regs[old])
        IN  /\ new # old
            /\ regs'[new].path = regs[old].path
            /\ regs'[new].key = key
            /\ \A t \in timers' : t.reg # old
            /\ old \notin Range(by_key') \cup Range(by_path')
            /\ \A i \in DOMAIN updated_state_cb : last'.calls[i] = 2
            /\ by_key'[key] = new
            /\ by_path'[path] = new
            /\ Cardinality({t \in timers' : t.reg = new}) = 1]_vars

C2_Witness ==
    /\ last.op = "register" /\ last.res = "ok" /\ last.old # 0
    /\ by_key[regs[last.reg].key] = last.reg
    /\ regs[last.reg].path = <<"reg", "1", "">>

\* C3: the expiry of a Registration leaves every map entry that refers to
\* another Registration in place.
C3_ExpirySparesOthers ==
    [][last'.op = "expire" =>
        /\ \A k \in DOMAIN by_key :
               by_key[k] # last'.reg => (k \in DOMAIN by_key' /\ by_key'[k] = by_key[k])
        /\ \A p \in DOMAIN by_path :
               by_path[p] # last'.reg => (p \in DOMAIN by_path' /\ by_path'[p] = by_path[p])
      ]_vars

\* C4: a registration that is answered with BadRequest leaves the maps, the
\* Registrations and their timers as they were.
C4_RejectedRegistrationNoEffect ==
    [][(last'.op = "register" /\ last'.res = "BadRequest") =>
        (by_key' = by_key /\ by_path' = by_path /\ regs' = regs /\ timers' = timers)]_vars

\* C5: an update_params that ends in an error of its own (not one of a
\* subscriber) leaves the Registration and its timer as they were and
\* notifies nobody.
C5_FailedUpdateNoEffect ==
    [][(last'.op = "update" /\ ~UpdateSucceeded(last') /\ last'.res # "CallbackError") =>
        (regs' = regs /\ timers' = timers /\ last'.notifs = 0)]_vars

\* C6: the key and the path of a Registration never change, and an update
\* whose parameters hold ep or d is answered with BadRequest and changes
\* nothing: no field of any Registration, no timer, no map, no notification.
C6_KeyImmutable ==
    [][/\ \A r \in DOMAIN regs \cap DOMAIN regs' :
              regs'[r].key = regs[r].key /\ regs'[r].path = regs[r].path
       /\ (last'.op = "update" /\ last'.epd) =>
              /\ last'.res = "BadRequest"
              /\ last'.notifs = 0
              /\ regs' = regs /\ timers' = timers
              /\ by_key' = by_key /\ by_path' = by_path]_vars

C6_Witness ==
    /\ last.op = "update" /\ last.epd /\ last.res = "BadRequest"
    /\ \E r \in Range(by_path) :
           /\ regs[r].lt = 1
           /\ regs[r].timeout # NoTask
           /\ "et" \in DOMAIN regs[r].registration_parameters

\* C7: when the timer of a registered Registration fires, the Registration
\* leaves both maps and every subscriber is notified.
C7_ExpiryDeletes ==
    [][(last'.op = "expire" /\ last'.reg \in Registered) =>
        /\ last'.reg \notin Range(by_key') \cup Range(by_path')
        /\ \A i \in DOMAIN updated_state_cb : last'.calls[i] = 1]_vars

\* C8: a timer fires no earlier than lt + 15 seconds after the last
\* update_params of its Registration that succeeded, lt being the lifetime
\* in force after that update.
C8_NoEarlyExpiry ==
    [][last'.op = "expire" => now >= regs[last'.reg].ok_due]_vars

\* C9: an update that succeeds notifies every subscriber once when it changes
\* lt, base or a parameter's values, and notifies nobody when it changes none.
C9_NotifyIffChange ==
    [][UpdateSucceeded(last') =>
        LET r == last'.reg
            changed == \/ regs'[r].lt # regs[r].lt
                       \/ regs'[r].base # regs[r].base
                       \/ regs'[r].registration_parameters # regs[r].registration_parameters
        IN  \A i \in DOMAIN updated_state_cb :
                last'.calls[i] = IF changed THEN 1 ELSE 0]_vars

C9_Witness ==
    /\ last.op = "update" /\ last.res = "ok" /\ last.notifs = 0
    /\ regs[last.reg].lt = 1
    /\ regs[last.reg].timeout = now + 1 + grace_period
    /\ now > 0

\* C10: whenever the subscribers are notified, each of them is invoked, once
\* for every notification.
C10_AllSubscribersInvoked ==
    \A i \in DOMAIN updated_state_cb : last.calls[i] = last.notifs

\* C11: a registration that succeeds for a key without a Registration gets
\* the path tail (str(i), "") of the smallest i >= 1 that is not in by_path,
\* a path no other Registration of the directory has, and the new
\* Registration is among get_endpoints() (the values of by_key) at once.
C11_PathAllocation ==
    [][(last'.op = "register" /\ last'.res = "ok" /\ last'.old = 0) =>
        LET new == last'.reg
            tail == pathtail(regs'[new])
        IN  /\ \E i \in 1..(MaxRegs + 1) :
                   /\ tail = <<str(i), "">>
                   /\ tail \notin DOMAIN by_path
                   /\ \A j \in 1..(i - 1) : <<str(j), "">> \in DOMAIN by_path
            /\ \A r \in Registered : pathtail(regs[r]) # tail
            /\ new \in Range(by_key')]_vars

\* C12: a request for a path that is not in by_path is answered with NotFound
\* and changes nothing, and once the timer of a Registration has fired (the
\* Registration has expired) no update or delete addressed to its path is
\* served by it.
C12_GoneIsNotFound ==
    [][/\ last'.op = "dispatch" =>
              /\ last'.res = "NotFound"
              /\ by_key' = by_key /\ by_path' = by_path
              /\ regs' = regs /\ timers' = timers
       /\ (last.op = "expire" /\ last.reg # 0) =>
              ~(last'.op \in {"update", "delete"} /\ last'.reg = last.reg)]_vars

\* C13: after delete() has run on a Registration (explicit deletion or
\* expiry), an update, a deletion or a timer of that same object notifies
\* nobody, arms no timer and changes neither map.
C13_DeletedIsTerminal ==
    [][(/\ last.op \in {"expire", "delete"} /\ last.reg # 0
        /\ last'.op \in {"update", "delete", "expire"} /\ last'.reg = last.reg) =>
           /\ last'.notifs = 0
           /\ timers' = timers
           /\ by_key' = by_key /\ by_path' = by_path]_vars

\* C19: the registration parameters of every Registration hold ep with the
\* ep of its key, hold d with the d of its key when the registration gave
\* one, and never hold lt or base; get_host_link emits the ep pair and no lt
\* or base pair.
C19_ParametersKeepKey ==
    \A r \in DOMAIN regs :
        LET params == regs[r].registration_parameters
            emitted == get_host_link(regs[r]).attr_pairs
        IN  /\ "lt" \notin DOMAIN params /\ "base" \notin DOMAIN params
            /\ "ep" \in DOMAIN params /\ params["ep"] = <<regs[r].key[1]>>
            /\ regs[r].key[2] # None => "d" \in DOMAIN params
            /\ "d" \in DOMAIN params => params["d"] = <<regs[r].key[2]>>
            /\ <<"ep", regs[r].key[1]>> \in emitted
            /\ \A pair \in emitted : pair[1] \notin {"lt", "base"}

\* C19 as stated: the registration parameters of every Registration hold
\* none of the keys ep, d, lt, base, and get_host_link emits no pair of
\* these names.
C19_NoReservedParameters ==
    \A r \in DOMAIN regs :
        /\ DOMAIN regs[r].registration_parameters \cap {"ep", "d", "lt", "base"} = {}
        /\ \A pair \in get_host_link(regs[r]).attr_pairs :
               pair[1] \notin {"ep", "d", "lt", "base"}

C19_Witness ==
    /\ last.op = "update" /\ last.res = "ok"
    /\ regs[last.reg].lt = 1
    /\ regs[last.reg].base_is_explicit
    /\ regs[last.reg].base = "coap://h1"
    /\ DOMAIN regs[last.reg].registration_parameters = {"ep", "et"}

\* C20: an update_params with a base among its parameters, initial or not,
\* whatever the base of the Registration is, ends with that base and with
\* base_is_explicit; and an update_params without base on a Registration
\* whose base is explicit succeeds from every remote, the anonymous one
\* included, and leaves the base as it was.
C20_SuppliedBaseWins ==
    \A r \in Registered, network_remote \in Remotes, is_initial \in BOOLEAN :
        LET self == IF is_initial
                    THEN Registration(("ep" :> <<regs[r].key[1]>>), regs[r].path,
                                      regs[r].key)
                    ELSE regs[r]
            given == update_params(self, network_remote,
                                   ("base" :> <<"coap://h1">>), is_initial)
            kept == update_params(regs[r], network_remote, EmptyQuery, FALSE)
        IN  /\ given.exc = ""
            /\ given.self.base = "coap://h1"
            /\ given.self.base_is_explicit
            /\ regs[r].base_is_explicit =>
                   kept.exc = "" /\ kept.self.base = regs[r].base

\* C21: get_host_link of a Registration gives a link whose href is "/" and
\* the segments of the Registration's path joined by "/", whose base is the
\* Registration's base, whose attribute pairs are one (key, value) for each
\* value of each key of registration_parameters and no other, and whose rt
\* is "core.rd-ep".
C21_HostLink ==
    \A r \in Registered :
        LET link == get_host_link(regs[r])
            params == regs[r].registration_parameters
        IN  /\ link.href = "/reg/" \o pathtail(regs[r])[1] \o "/"
            /\ link.base = regs[r].base
            /\ \A k \in DOMAIN params :
                   \A i \in DOMAIN params[k] : <<k, params[k][i]>> \in link.attr_pairs
            /\ \A pair \in link.attr_pairs :
                   /\ pair[1] \in DOMAIN params
                   /\ \E i \in DOMAIN params[pair[1]] : params[pair[1]][i] = pair[2]
            /\ link.rt = "core.rd-ep"

\* C22: the subscribers are notified before the maps change. While delete()
\* notifies, the timer of the Registration is cancelled and the Registration
\* is still in by_key and in by_path; while a creation is notified, the new
\* Registration has its timer and is in neither map, and the Registration it
\* replaces is in neither map any more. (What a subscriber sees is the state
\* it leaves behind when it raises.)
C22_NotifiedBeforeMaps ==
    [][/\ (last'.op \in {"delete", "expire"} /\ last'.notifs > 0) =>
              /\ last'.reg \in Range(by_key) /\ last'.reg \in Range(by_path)
              /\ last'.res = "CallbackError" =>
                     /\ last'.reg \in Range(by_key') /\ last'.reg \in Range(by_path')
                     /\ \A t \in timers' : t.reg # last'.reg
       /\ (last'.op = "register" /\ last'.res = "CallbackError") =>
              /\ \A t \in timers' \ timers :
                     t.reg \notin Range(by_key') \cup Range(by_path')
              /\ last'.notifs = 2 =>
                     /\ timers' \ timers # {}
                     /\ \E k \in DOMAIN by_key \ DOMAIN by_key' :
                            by_key[k] \notin Range(by_key') \cup Range(by_path')
      ]_vars

\* C23: between operations, every Registration that is in by_key or by_path
\* has exactly one pending timer, and every pending timer is the timer of a
\* Registration that is in the maps.
C23_OneTimerEach ==
    /\ \A r \in Registered : Cardinality({t \in timers : t.reg = r}) = 1
    /\ \A t \in timers : t.reg \in Registered

\* C24: a registration update by POST that is answered with BadRequest
\* because the request has a body leaves the lt, the base and the parameters
\* of the Registration and the pending timers as they were and notifies
\* nobody.
C24_BodyRejectedNoEffect ==
    [][(last'.op = "update" /\ last'.res = "BadRequest (body)") =>
        /\ regs'[last'.reg].lt = regs[last'.reg].lt
        /\ regs'[last'.reg].base = regs[last'.reg].base
        /\ regs'[last'.reg].registration_parameters
               = regs[last'.reg].registration_parameters
        /\ timers' = timers
        /\ last'.notifs = 0]_vars

----------------------------------------------------------------------------
(* The lookups (specification SpecLookup). A lookup is one that was served: *)
(* it passed the check of the remote and ended without an error.            *)

Served(op) == last.op = op /\ last.res = "ok"

Returned == Range(last.result)

AllPairs == Range(pairs(Store, get_endpoints(Store)))

kind_of(search_key) == IF search_key = "href" THEN "href" ELSE "attr"

\* the endpoint c matches one of the values of the filter key of item, under
\* the predicate of that key
EndpointMatchesKey(c, item) ==
    \E j \in DOMAIN item[2] :
        endpoint_condition(c, kind_of(item[1]), cells_at(item[1], item[2][j]))

\* the same of the link of the endpoint e
ResourceMatchesKey(e, link, item) ==
    \E j \in DOMAIN item[2] :
        resource_condition(e, link, kind_of(item[1]), cells_at(item[1], item[2][j]))

\* C14: a lookup returns a candidate only if the candidate matches, for every
\* filter key of the query, at least one of the values given for that key
\* under the key's own predicate.
C14_KeysConjoined ==
    /\ Served("endpoint lookup") =>
           \A r \in Range(by_key) :
               get_host_link(regs[r]) \in Returned =>
                   \A i \in DOMAIN filters(last.query) :
                       EndpointMatchesKey(regs[r], filters(last.query)[i])
    /\ Served("resource lookup") =>
           \A p \in AllPairs :
               p[2] \in Returned =>
                   \A i \in DOMAIN filters(last.query) :
                       ResourceMatchesKey(regs[p[1]], p[2], filters(last.query)[i])

\* C15: several values of one filter key are alternatives: a lookup whose
\* query is one filter key returns every candidate that matches any one of
\* the values given for it.
C15_ValuesDisjoined ==
    /\ (Served("endpoint lookup") /\ filters(last.query) = last.query
            /\ Len(last.query) = 1) =>
           \A r \in Range(by_key) :
               EndpointMatchesKey(regs[r], last.query[1])
                   => get_host_link(regs[r]) \in Returned
    /\ (Served("resource lookup") /\ filters(last.query) = last.query
            /\ Len(last.query) = 1) =>
           \A p \in AllPairs :
               ResourceMatchesKey(regs[p[1]], p[2], last.query[1])
                   => p[2] \in Returned

\* the value of a pagination key of the query of the lookup: None when the
\* key is not given (or has no value)
PaginationArg(name) ==
    IF name \in DOMAIN dict(last.query) THEN dict(last.query)[name][1] ELSE None

\* S[p*c .. p*c+c), S[0 .. c) or S, for the page and the count of the lookup
PageOf(S) ==
    IF PaginationArg("count") = None THEN S
    ELSE IF PaginationArg("page") = None THEN slice(S, 0, int(PaginationArg("count")))
    ELSE slice(S, int(PaginationArg("page")) * int(PaginationArg("count")),
               int(PaginationArg("page")) * int(PaginationArg("count"))
                   + int(PaginationArg("count")))

\* C16: a lookup returns the page of S that page and count select, S being
\* the list the same lookup returns for the query without page and count; all
\* of S when neither is given.
C16_PaginationAfterFilters ==
    /\ Served("endpoint lookup") =>
           LET S == endpoint_lookup(Store, filters(last.query))
           IN  last.result = PageOf(host_links(Store, S.candidates))
    /\ Served("resource lookup") =>
           LET S == resource_lookup(Store, filters(last.query))
           IN  last.result = PageOf(S.candidates)

\* C17: a lookup that gives page and no count, or a page or a count that is
\* no integer, ends in BadRequest and in no other error, without a result.
C17_PaginationErrors ==
    (/\ last.op \in {"endpoint lookup", "resource lookup"}
     /\ last.res # "Unauthorized"
     /\ \A i \in DOMAIN last.query :
            last.query[i][1] \in Pagination => Len(last.query[i][2]) = 1
     /\ \/ PaginationArg("page") # None /\ PaginationArg("count") = None
        \/ PaginationArg("page") \notin IntLiterals \cup {None}
        \/ PaginationArg("count") \notin IntLiterals \cup {None})
        => last.res = "BadRequest" /\ last.result = <<>>

\* the link has an attribute of the name key whose value the filter value
\* matches
LinkHas(link, key, value) ==
    \E i \in DOMAIN link.attr_pairs :
        /\ link.attr_pairs[i][1] = key
        /\ matches(matches_of(key, value), link.attr_pairs[i][2])

ParametersHave(e, key, value) ==
    /\ key \in DOMAIN e.registration_parameters
    /\ \E i \in DOMAIN e.registration_parameters[key] :
           matches(matches_of(key, value), e.registration_parameters[key][i])

\* C18: a resource lookup with one attribute filter returns a link that has
\* a matching attribute and does not return a link of the same endpoint that
\* has none, when no registration parameter of the endpoint matches.
C18_LinksFilteredIndependently ==
    (/\ Served("resource lookup")
     /\ Len(last.query) = 1
     /\ last.query[1][1] \notin Pagination \cup {"href"}
     /\ Len(last.query[1][2]) = 1) =>
        LET key == last.query[1][1]
            value == last.query[1][2][1]
        IN  \A e \in Range(by_key) :
                \A i, j \in DOMAIN get_based_links(regs[e]) :
                    (/\ LinkHas(get_based_links(regs[e])[i], key, value)
                     /\ ~LinkHas(get_based_links(regs[e])[j], key, value)
                     /\ ~ParametersHave(regs[e], key, value)) =>
                        /\ get_based_links(regs[e])[i] \in Returned
                        /\ get_based_links(regs[e])[j] \notin Returned

C18_Witness ==
    /\ Served("resource lookup")
    /\ last.query = <<<<"rt", <<"temp">>>>>>
    /\ Link("coap://h1/temp", <<<<"rt", "temp">>, <<"anchor", "coap://h1">>>>)
           \in Returned
    /\ Link("coap://h1/light", <<<<"rt", "light">>, <<"anchor", "coap://h1">>>>)
           \in {p[2] : p \in AllPairs}
    /\ Len(last.result) = 2

====
